---- MODULE Spec2Model ----
(***************************************************************************)
(* Model of etl.py: the Sparkify batch ETL.  main runs process_song_data   *)
(* and then process_log_data; both read JSON records into a DataFrame,     *)
(* project it into tables and write each table to its parquet destination  *)
(* with mode="overwrite".                                                  *)
(*                                                                         *)
(* A DataFrame is a sequence of rows (records).  The order of the rows is  *)
(* not part of a DataFrame's meaning, so the inputs are enumerated in one  *)
(* canonical order and tables are compared as multisets of rows.           *)
(***************************************************************************)
EXTENDS Integers, Sequences, FiniteSets, TLC

\* Bounds of the model.
MaxSongs == 2
MaxLogs == 2
MaxRuns == 2

\* JSON null / SQL NULL in a string column.
Null == "<null>"

----------------------------------------------------------------------------
(* Input records *)

SongRec(sid, title, aid, name, loc, lat, lon, year, dur) ==
    [song_id |-> sid, title |-> title, artist_id |-> aid, artist_name |-> name,
     artist_location |-> loc, artist_latitude |-> lat, artist_longitude |-> lon,
     year |-> year, duration |-> dur]

\* The song records the song_data files may hold: two songs of one title,
\* one song_id with two different years (and two locations of its artist),
\* a song without a title.  Floats are written as decimal literals.
SongPool ==
    << SongRec("S1", "Hello", "A1", "Adele", "London", "51.5", "-0.1", 2000, "180.5"),
       SongRec("S1", "Hello", "A1", "Adele", Null, Null, Null, 2001, "180.5"),
       SongRec("S2", "Hello", "A2", "Lionel", "Tuskegee", "32.4", "-85.7", 1984, "250.0"),
       SongRec("S3", Null, "A1", "Adele", "London", "51.5", "-0.1", 2015, "295.0") >>

\* ts is an integer of epoch milliseconds sec * 1000 + ms; it is held in its
\* two parts because the value does not fit the checker's 32-bit integers.
LogRec(sec, ms, uid, first, last, gender, level, sid, loc, ua, song, page) ==
    [ts |-> [sec |-> sec, ms |-> ms], userId |-> uid, firstName |-> first,
     lastName |-> last, gender |-> gender, level |-> level, sessionId |-> sid,
     location |-> loc, userAgent |-> ua, song |-> song, page |-> page]

\* The log events the log_data files may hold: a play of "Hello", the same
\* user in the same second on another level playing an unknown title, a
\* "Home" page view that names "Hello", a "Login" without a song.
LogPool ==
    << LogRec(1541121934, 796, "10", "Ann", "Lee", "F", "free", 5, "NY", "X", "Hello", "NextSong"),
       LogRec(1541121934, 123, "10", "Ann", "Lee", "F", "paid", 5, "NY", "X", "Bye", "NextSong"),
       LogRec(1609459200, 0, "10", "Ann", "Lee", "F", "free", 6, "NY", "X", "Hello", "Home"),
       LogRec(1546300800, 0, "11", "Bob", "Ray", "M", "free", 7, "LA", "Y", Null, "Login") >>

\* The non-decreasing index sequences of length n over 1..m.
NonDecr(n, m) ==
    {ix \in [1..n -> 1..m] : \A k \in 1..n : k < n => ix[k] <= ix[k + 1]}

\* Every multiset of at most max records of the pool, in canonical order.
Inputs(pool, max) ==
    UNION {{[k \in 1..n |-> pool[ix[k]]] : ix \in NonDecr(n, Len(pool))} : n \in 0..max}

\* The local time zones of the host: UTC and UTC-5, as seconds east of UTC.
\* The zone is the host's setting: it does not change between the runs.
TimeZones == {0, -18000}

----------------------------------------------------------------------------
(* Storage *)

Tables == {"songs", "artists", "users", "time", "songplays"}

Absent == [exists |-> FALSE, rows |-> << >>]
Stored(rows) == [exists |-> TRUE, rows |-> rows]

VARIABLES
    song_data,        \* the records under input_data + "song_data/"
    log_data,         \* the records under input_data + "log_data/"
    tz,               \* the host's local time zone (seconds east of UTC)
    store,            \* the parquet destinations under output_data
    pc,               \* the statement main is at
    run,              \* the number of runs of main started
    df,               \* local df of the running function
    song_df,          \* local song_df of process_log_data
    songplays_table,  \* local songplays_table of process_log_data
    collected,        \* the value of the collect() of line 120
    joinIdx,          \* history: the (event, song) pair each joined row is from
    trace,            \* history: the statements this run has executed
    failedAt,         \* history: the statement that raised, or Null
    snap              \* history: the destinations after the first full run

vars == << song_data, log_data, tz, store, pc, run, df, song_df,
           songplays_table, collected, joinIdx, trace, failedAt, snap >>

inputs == << song_data, log_data, tz >>
locals == << df, song_df, songplays_table, collected, joinIdx >>

----------------------------------------------------------------------------
(* DataFrame operations *)

Range(s) == {s[i] : i \in DOMAIN s}

Count(r, rows) == Cardinality({i \in DOMAIN rows : rows[i] = r})

\* Two tables hold the same rows, each the same number of times.
SameRows(a, b) ==
    \A r \in Range(a) \cup Range(b) : Count(r, a) = Count(r, b)

\* DataFrame.distinct() written without the deduplication.
DistinctKeepsAll(rows) == rows

\* DataFrame.distinct(): one row of every group of equal rows.
Distinct(rows) ==
    LET keep == SelectSeq([i \in DOMAIN rows |-> i],
                          LAMBDA i : \A j \in 1..(i - 1) : rows[j] # rows[i])
    IN  [k \in DOMAIN keep |-> rows[keep[k]]]

\* df.select('song_id', 'title', 'artist_id', 'year', 'duration')
SelectSong(r) ==
    [song_id |-> r.song_id, title |-> r.title, artist_id |-> r.artist_id,
     year |-> r.year, duration |-> r.duration]

\* df.select('artist_id', artist_name as name, ... as longitude)
SelectArtist(r) ==
    [artist_id |-> r.artist_id, name |-> r.artist_name,
     location |-> r.artist_location, latitude |-> r.artist_latitude,
     longitude |-> r.artist_longitude]

\* songs_table of process_song_data
SongsTable(d) == Distinct([i \in DOMAIN d |-> SelectSong(d[i])])

\* artists_table of process_song_data
ArtistsTable(d) == Distinct([i \in DOMAIN d |-> SelectArtist(d[i])])

\* df['userId', 'firstName', 'lastName', 'gender', 'level']
SelectUser(r) ==
    [userId |-> r.userId, firstName |-> r.firstName, lastName |-> r.lastName,
     gender |-> r.gender, level |-> r.level]

\* users_table of process_log_data
UsersTable(d) == [i \in DOMAIN d |-> SelectUser(d[i])]

\* DataFrameWriter.parquet(path, mode="append")
WriteAppend(old, new) == Stored(old.rows \o new)

\* DataFrameWriter.parquet(path, mode="overwrite")
WriteOverwrite(old, new) == Stored(new)

\* What a destination may hold after a write of `new` to it raised: its old
\* contents, nothing, or some of the new rows.
AfterFailedWrite(old, new) ==
    {old, Stored(<< >>)} \cup {Stored(SubSeq(new, 1, n)) : n \in 1..(Len(new) - 1)}

----------------------------------------------------------------------------
(* Timestamp derivation *)

\* The values the Python lambdas return, each with its Python type.  (The
\* udfs declare no return type; the columns are modelled by the value the
\* lambda computes.)
PyInt(n) == [t |-> "int", v |-> n]
PyStr(s) == [t |-> "str", v |-> s]

\* calendar.day_name
day_name ==
    << "Monday", "Tuesday", "Wednesday", "Thursday", "Friday", "Saturday", "Sunday" >>

\* int(int(x) / 1000): the whole seconds of the non-negative ts
EpochSeconds(ts) == ts.sec

\* The proleptic Gregorian date of day number z (day 0 is 1970-01-01).
CivilFromDays(z0) ==
    LET z   == z0 + 719468
        era == z \div 146097
        doe == z - era * 146097
        yoe == (doe - doe \div 1460 + doe \div 36524 - doe \div 146096) \div 365
        doy == doe - (365 * yoe + yoe \div 4 - yoe \div 100)
        mp  == (5 * doy + 2) \div 153
        m   == IF mp < 10 THEN mp + 3 ELSE mp - 9
    IN  [year  |-> yoe + era * 400 + (IF m <= 2 THEN 1 ELSE 0),
         month |-> m,
         day   |-> doy - (153 * mp + 2) \div 5 + 1]

\* The day number of a proleptic Gregorian date.
DaysFromCivil(y0, m, d) ==
    LET y   == IF m <= 2 THEN y0 - 1 ELSE y0
        era == y \div 400
        yoe == y - era * 400
        doy == (153 * (IF m > 2 THEN m - 3 ELSE m + 9) + 2) \div 5 + d - 1
        doe == yoe * 365 + yoe \div 4 - yoe \div 100 + doy
    IN  era * 146097 + doe - 719468

\* datetime.fromtimestamp(sec): the naive local datetime of the host's zone
FromTimestamp(sec, zone) ==
    LET loc == sec + zone
        c   == CivilFromDays(loc \div 86400)
        rem == loc % 86400
    IN  [year |-> c.year, month |-> c.month, day |-> c.day,
         hour |-> rem \div 3600, minute |-> (rem % 3600) \div 60, second |-> rem % 60]

\* datetime.weekday(): Monday is 0
Weekday(dt) == (DaysFromCivil(dt.year, dt.month, dt.day) + 3) % 7

\* The number of ISO-8601 weeks of year y.
IsoWeeksInYear(y) ==
    LET jan1 == (DaysFromCivil(y, 1, 1) + 3) % 7
        leap == (y % 4 = 0 /\ y % 100 # 0) \/ y % 400 = 0
    IN  IF jan1 = 3 \/ (leap /\ jan1 = 2) THEN 53 ELSE 52

\* datetime.isocalendar()[1]: the ISO-8601 week number
IsoWeek(dt) ==
    LET yday == DaysFromCivil(dt.year, dt.month, dt.day) - DaysFromCivil(dt.year, 1, 1) + 1
        w    == (yday - (Weekday(dt) + 1) + 10) \div 7
    IN  IF w < 1 THEN IsoWeeksInYear(dt.year - 1)
        ELSE IF w > IsoWeeksInYear(dt.year) THEN 1
        ELSE w

get_datetime(ts, zone) == FromTimestamp(EpochSeconds(ts), zone)
get_week(x) == PyStr(day_name[Weekday(x) + 1])
get_weekday(x) == PyInt(IsoWeek(x))
get_hour(x) == PyInt(x.hour)
get_day(x) == PyInt(x.day)
get_year(x) == PyInt(x.year)
get_month(x) == PyInt(x.month)

Merge(r, extra) ==
    [f \in (DOMAIN r) \cup (DOMAIN extra) |-> IF f \in DOMAIN extra THEN extra[f] ELSE r[f]]

\* The withColumn calls of lines 88 to 105 on one row.
WithTimeColumns(r, zone) ==
    LET st == get_datetime(r.ts, zone)
    IN  Merge(r, [timestamp |-> EpochSeconds(r.ts), start_time |-> st,
                  hour |-> get_hour(st), day |-> get_day(st), week |-> get_week(st),
                  month |-> get_month(st), year |-> get_year(st),
                  weekday |-> get_weekday(st)])

\* df['start_time', 'hour', 'day', 'week', 'month', 'year', 'weekday']
SelectTime(r) ==
    [start_time |-> r.start_time, hour |-> r.hour, day |-> r.day, week |-> r.week,
     month |-> r.month, year |-> r.year, weekday |-> r.weekday]

\* time_table of process_log_data
TimeTable(d) == [i \in DOMAIN d |-> SelectTime(d[i])]

----------------------------------------------------------------------------
(* The join of process_log_data *)

\* SQL equality: NULL equals nothing, NULL included.
SqlEq(a, b) == a # Null /\ b # Null /\ a = b

\* A join condition that also asks for a song play event.
JoinCondNextSong(l, s) == SqlEq(s.title, l.song) /\ l.page = "NextSong"

\* A join condition with the null-safe equality (<=>).
JoinCondNullSafe(l, s) == s.title = l.song

\* song_df.title == df.song
JoinCond(l, s) == SqlEq(s.title, l.song)

\* df.join(song_df, cond), an inner join: the pairs <<i, j>> of a row i of
\* the left side and a row j of the right side that satisfy the condition.
JoinPairs(left, right) ==
    LET n == Len(left)
        m == Len(right)
        all == [k \in 1..(n * m) |-> << ((k - 1) \div m) + 1, ((k - 1) % m) + 1 >>]
    IN  SelectSeq(all, LAMBDA p : JoinCond(left[p[1]], right[p[2]]))

\* df['start_time', 'userId', 'level', 'song_id', 'artist_id', 'sessionId',
\*    'location', 'userAgent'] of a joined row
SelectSongplay(l, s) ==
    [start_time |-> l.start_time, userId |-> l.userId, level |-> l.level,
     song_id |-> s.song_id, artist_id |-> s.artist_id, sessionId |-> l.sessionId,
     location |-> l.location, userAgent |-> l.userAgent]

\* songplays_table of line 119
SongplaysTable(left, right) ==
    LET ps == JoinPairs(left, right)
    IN  [k \in DOMAIN ps |-> SelectSongplay(left[ps[k][1]], right[ps[k][2]])]

\* select(monotonically_increasing_id().alias('songplay_id')).collect(): one
\* row per row of the table, numbered from 0 within the single partition.
CollectIds(rows) == [k \in DOMAIN rows |-> [songplay_id |-> k - 1]]

----------------------------------------------------------------------------
(* What the destinations hold before the first run *)

\* The inputs of an earlier run, over other data, in UTC.
StaleSongs ==
    << SongRec("S0", "Bye", "A0", "Nsync", "Orlando", "28.5", "-81.4", 2000, "200.0") >>

StaleLogs ==
    << LogRec(1500000000, 0, "99", "Old", "User", "M", "paid", 1, "SF", "Z", "Bye", "NextSong") >>

\* The five tables that run left.
StaleStore ==
    LET timed == [i \in DOMAIN StaleLogs |-> WithTimeColumns(StaleLogs[i], 0)]
    IN  [t \in Tables |->
            Stored(CASE t = "songs" -> SongsTable(StaleSongs)
                     [] t = "artists" -> ArtistsTable(StaleSongs)
                     [] t = "users" -> UsersTable(StaleLogs)
                     [] t = "time" -> TimeTable(timed)
                     [] t = "songplays" -> SongplaysTable(timed, SongsTable(StaleSongs)))]

\* Before the first run nothing is at the destinations, or the tables of an
\* earlier run over other data are.
PriorStores == {[t \in Tables |-> Absent], StaleStore}

----------------------------------------------------------------------------
(* main *)

\* main with the two calls in the other order.
MainOrderLogFirst == << "process_log_data", "process_song_data" >>

\* The calls of main, in order.
MainOrder == << "process_song_data", "process_log_data" >>

\* The statements of each function, in order.
Body(fn) ==
    IF fn = "process_song_data"
    THEN << "song_read", "songs_write", "artists_write" >>
    ELSE << "log_read", "users_write", "time_columns", "time_write",
            "songs_read", "join", "songplays_write" >>

Program == Body(MainOrder[1]) \o Body(MainOrder[2])

IndexOf(step) == CHOOSE i \in DOMAIN Program : Program[i] = step

\* The statement after `step`, or "done" after the last.
NextPc(step) ==
    IF IndexOf(step) = Len(Program) THEN "done" ELSE Program[IndexOf(step) + 1]

\* The destination a write statement writes.
Dest(step) ==
    CASE step = "songs_write" -> "songs"
      [] step = "artists_write" -> "artists"
      [] step = "users_write" -> "users"
      [] step = "time_write" -> "time"
      [] step = "songplays_write" -> "songplays"

WriteSteps ==
    {"songs_write", "artists_write", "users_write", "time_write", "songplays_write"}

\* The table a write statement writes, from the locals.
TableOf(step) ==
    CASE step = "songs_write" -> SongsTable(df)
      [] step = "artists_write" -> ArtistsTable(df)
      [] step = "users_write" -> UsersTable(df)
      [] step = "time_write" -> TimeTable(df)
      [] step = "songplays_write" -> songplays_table

\* An error handler that runs the failing statement again.
AfterErrorRetry(step) == step

\* No statement catches an exception: it leaves main and ends the process.
AfterError(step) == "failed"

Init ==
    /\ song_data \in Inputs(SongPool, MaxSongs)
    /\ log_data \in Inputs(LogPool, MaxLogs)
    /\ tz \in TimeZones
    /\ store \in PriorStores
    /\ pc = "idle"
    /\ run = 0
    /\ df = << >>
    /\ song_df = << >>
    /\ songplays_table = << >>
    /\ collected = << >>
    /\ joinIdx = << >>
    /\ trace = << >>
    /\ failedAt = Null
    /\ snap = << >>

\* The process starts: main is entered, for the first time or again after a
\* run that completed.
StartMain ==
    /\ pc \in {"idle", "exited"}
    /\ run < MaxRuns
    /\ run' = run + 1
    /\ pc' = Program[1]
    /\ trace' = << >>
    /\ UNCHANGED << inputs, store, locals, failedAt, snap >>

\* A statement completes: the next one is reached; after the last one the
\* locals are gone and the run is over.
Advance(step) ==
    /\ pc' = NextPc(step)
    /\ trace' = Append(trace, step)

\* df = spark.read.json(paths): line 35 and line 73
ReadJson(step, data) ==
    /\ pc = step
    /\ df' = data
    /\ Advance(step)
    /\ UNCHANGED << inputs, store, run, song_df, songplays_table, collected,
                    joinIdx, failedAt, snap >>

SongRead == ReadJson("song_read", song_data)

LogRead == ReadJson("log_read", log_data)

\* table.write.parquet(destination, mode="overwrite"): lines 46, 60, 84, 111.
\* The call returns when the write job has committed; main has one thread,
\* so nothing else runs meanwhile.
Write(step) ==
    /\ pc = step
    /\ store' = [store EXCEPT ![Dest(step)] = WriteOverwrite(@, TableOf(step))]
    /\ Advance(step)
    /\ UNCHANGED << inputs, run, locals, failedAt, snap >>

SongsWrite == Write("songs_write")

ArtistsWrite == Write("artists_write")

UsersWrite == Write("users_write")

TimeWrite == Write("time_write")

\* The withColumn calls of lines 88 to 105.
TimeColumns ==
    /\ pc = "time_columns"
    /\ df' = [i \in DOMAIN df |-> WithTimeColumns(df[i], tz)]
    /\ Advance("time_columns")
    /\ UNCHANGED << inputs, store, run, song_df, songplays_table, collected,
                    joinIdx, failedAt, snap >>

\* song_df = spark.read.parquet(output_data + "songs.parquet"): it raises
\* when nothing is at the path.
SongsRead ==
    /\ pc = "songs_read"
    /\ store["songs"].exists
    /\ song_df' = store["songs"].rows
    /\ Advance("songs_read")
    /\ UNCHANGED << inputs, store, run, df, songplays_table, collected,
                    joinIdx, failedAt, snap >>

\* Lines 118 to 120: the join, the projection, and the collect() of the
\* ids, whose result is dropped.
Join ==
    /\ pc = "join"
    /\ joinIdx' = JoinPairs(df, song_df)
    /\ songplays_table' = SongplaysTable(df, song_df)
    /\ collected' = CollectIds(SongplaysTable(df, song_df))
    /\ Advance("join")
    /\ UNCHANGED << inputs, store, run, df, song_df, failedAt, snap >>

\* Line 123, the last statement: process_log_data and main return.
SongplaysWrite ==
    /\ pc = "songplays_write"
    /\ store' = [store EXCEPT !["songplays"] = WriteOverwrite(@, songplays_table)]
    /\ Advance("songplays_write")
    /\ UNCHANGED << inputs, run, locals, failedAt, snap >>

\* main has returned: the process exits, and its locals are gone.  (The
\* history variable snap keeps the destinations of the first such run.)
Exit ==
    /\ pc = "done"
    /\ pc' = "exited"
    /\ snap' = IF snap = << >> THEN << store >> ELSE snap
    /\ df' = << >>
    /\ song_df' = << >>
    /\ songplays_table' = << >>
    /\ collected' = << >>
    /\ joinIdx' = << >>
    /\ UNCHANGED << inputs, store, run, trace, failedAt >>

\* A read, a transformation or the collect() raises.
StepRaises ==
    /\ pc \in Range(Program) \ WriteSteps
    /\ failedAt' = pc
    /\ trace' = Append(trace, pc)
    /\ pc' = AfterError(pc)
    /\ UNCHANGED << inputs, store, run, locals, snap >>

\* A write raises: its destination is left old, empty or partly written.
WriteRaises ==
    /\ pc \in WriteSteps
    /\ \E left \in AfterFailedWrite(store[Dest(pc)], TableOf(pc)) :
           store' = [store EXCEPT ![Dest(pc)] = left]
    /\ failedAt' = pc
    /\ trace' = Append(trace, pc)
    /\ pc' = AfterError(pc)
    /\ UNCHANGED << inputs, run, locals, snap >>

Next ==
    \/ StartMain
    \/ SongRead
    \/ SongsWrite
    \/ ArtistsWrite
    \/ LogRead
    \/ UsersWrite
    \/ TimeColumns
    \/ TimeWrite
    \/ SongsRead
    \/ Join
    \/ SongplaysWrite
    \/ Exit
    \/ StepRaises
    \/ WriteRaises

Spec == Init /\ [][Next]_vars

----------------------------------------------------------------------------
(* Properties *)

\* The statement has run to its end in the current (or the last) run.
Completed(step) == step \in Range(trace) /\ failedAt # step

NoTwoEqual(rows) == \A a, b \in DOMAIN rows : a # b => rows[a] # rows[b]

\* The rows of a destination.
Rows(t) == store[t].rows

\* The log rows with their time columns, as line 105 leaves them.
TimedLog == [i \in DOMAIN log_data |-> WithTimeColumns(log_data[i], tz)]

\* Event i names the title of songs row j.
Matches(i, j) ==
    /\ log_data[i].song # Null
    /\ Rows("songs")[j].title # Null
    /\ log_data[i].song = Rows("songs")[j].title

\* The written songplays rows that come from event i.
RowsOfEvent(i) == {k \in DOMAIN joinIdx : joinIdx[k][1] = i}

\* The table each write statement is to leave at its destination.
Expected(step) ==
    CASE step = "songs_write" -> SongsTable(song_data)
      [] step = "artists_write" -> ArtistsTable(song_data)
      [] step = "users_write" -> UsersTable(log_data)
      [] step = "time_write" -> TimeTable(TimedLog)
      [] step = "songplays_write" -> SongplaysTable(TimedLog, SongsTable(song_data))

C2_OnlyMatchedRows ==
    /\ Completed("songplays_write") =>
           \A k \in DOMAIN Rows("songplays") :
               \E i \in DOMAIN log_data, j \in DOMAIN Rows("songs") :
                   /\ Matches(i, j)
                   /\ Rows("songplays")[k] = SelectSongplay(TimedLog[i], Rows("songs")[j])
    /\ pc = "done" =>
           /\ Len(Rows("songplays")) = Len(joinIdx)
           /\ \A i \in DOMAIN log_data :
                  (\A j \in DOMAIN Rows("songs") : ~Matches(i, j)) => RowsOfEvent(i) = {}

\* C2's case: a written, non-empty songplays table, with an event without a
\* song and a songs row without a title that contributed nothing to it.
C2_Witness ==
    /\ pc = "done"
    /\ Len(Rows("songplays")) > 0
    /\ \E i \in DOMAIN log_data :
           /\ log_data[i].song = Null
           /\ RowsOfEvent(i) = {}
    /\ \E j \in DOMAIN Rows("songs") : Rows("songs")[j].title = Null

\* C3: when process_log_data is about to read the songs table, this run's
\* write of it has completed and the destination holds the whole table; what
\* the read returned is that table; and the users and time tables are what
\* the log alone determines.
C3_SongsWrittenBeforeRead ==
    /\ pc = "songs_read" =>
           /\ Completed("songs_write")
           /\ store["songs"] = Stored(SongsTable(song_data))
    /\ pc \in {"join", "songplays_write", "done"} => song_df = SongsTable(song_data)
    /\ Completed("users_write") => Rows("users") = UsersTable(log_data)
    /\ Completed("time_write") => Rows("time") = TimeTable(TimedLog)

\* C3's case: the first run is about to read a songs table of two rows at a
\* destination that held the rows of an earlier run before, the users and time tables written.
C3_Witness ==
    /\ pc = "songs_read"
    /\ run = 1
    /\ Len(Rows("songs")) = 2
    /\ Rows("songplays") = StaleStore["songplays"].rows
    /\ Len(Rows("users")) = 2
    /\ Completed("time_write")

\* C4: the written songs table has no two equal rows and holds every
\* distinct (song_id, title, artist_id, year, duration) of the input; the
\* written artists table likewise on its tuple.
C4_SongsArtistsDistinct ==
    /\ Completed("songs_write") =>
           /\ NoTwoEqual(Rows("songs"))
           /\ Range(Rows("songs")) = {SelectSong(r) : r \in Range(song_data)}
    /\ Completed("artists_write") =>
           /\ NoTwoEqual(Rows("artists"))
           /\ Range(Rows("artists")) = {SelectArtist(r) : r \in Range(song_data)}

\* C4's case: two song records that differ as songs and are equal as
\* artists: both songs rows survive, the artists rows collapse to one.
C4_Witness ==
    /\ Completed("artists_write")
    /\ Len(song_data) = 2
    /\ Len(Rows("songs")) = 2
    /\ Len(Rows("artists")) = 1

\* C5 as stated: the written users table has no two equal rows (and holds
\* every distinct user tuple of the log).
C5_UsersDistinct ==
    Completed("users_write") =>
        /\ NoTwoEqual(Rows("users"))
        /\ Range(Rows("users")) = {SelectUser(r) : r \in Range(log_data)}

\* C6 as stated: no two rows of the written time table have the same
\* start_time.
C6_OneRowPerStartTime ==
    Completed("time_write") =>
        \A a, b \in DOMAIN Rows("time") :
            a # b => Rows("time")[a].start_time # Rows("time")[b].start_time

\* C7 as stated: in every written time row, week is the ISO-8601 week number
\* of start_time, within 1..53, weekday is the English name of its day of the
\* week, hour is within 0..23, day within 1..31 and month within 1..12.
C7_TimeColumns ==
    Completed("time_write") =>
        \A k \in DOMAIN Rows("time") :
            LET r == Rows("time")[k]
            IN  /\ r.week = PyInt(IsoWeek(r.start_time))
                /\ r.week.v \in 1..53
                /\ r.weekday = PyStr(day_name[Weekday(r.start_time) + 1])
                /\ r.hour.t = "int" /\ r.hour.v \in 0..23
                /\ r.day.t = "int" /\ r.day.v \in 1..31
                /\ r.month.t = "int" /\ r.month.v \in 1..12

\* C8 as stated: every written songplays row has a songplay_id, and no two
\* written rows have the same.
C8_SongplayIds ==
    Completed("songplays_write") =>
        /\ \A k \in DOMAIN Rows("songplays") : "songplay_id" \in DOMAIN Rows("songplays")[k]
        /\ \A a, b \in DOMAIN Rows("songplays") :
               a # b => Rows("songplays")[a].songplay_id # Rows("songplays")[b].songplay_id

\* C9: when a run completes after an earlier complete run on the same
\* inputs, every destination holds the rows it held after that earlier run;
\* and after any complete run no destination keeps a row it held before.
C9_RerunSameTables ==
    pc = "done" =>
        /\ \A t \in Tables : store[t].exists /\ Range(Rows(t)) \cap Range(StaleStore[t].rows) = {}
        /\ snap # << >> =>
               \A t \in Tables : SameRows(Rows(t), snap[1][t].rows)

\* C9's case: the second run has completed, over destinations that held
\* non-empty tables of the first.
C9_Witness ==
    /\ pc = "done"
    /\ run = 2
    /\ snap # << >>
    /\ \A t \in Tables : Len(Rows(t)) > 0

\* C10: once a statement has raised, the run is over: the statements
\* executed are exactly those up to the failing one, each once, in program
\* order, and the destinations written before it hold their new tables.
C10_ErrorEndsRun ==
    failedAt # Null =>
        /\ pc = "failed"
        /\ trace = SubSeq(Program, 1, IndexOf(failedAt))
        /\ \A w \in WriteSteps :
               IndexOf(w) < IndexOf(failedAt) => store[Dest(w)] = Stored(Expected(w))
        /\ failedAt \in Range(Body("process_song_data")) =>
               Range(trace) \cap Range(Body("process_log_data")) = {}
        /\ failedAt = "songs_read" => "songplays_write" \notin Range(trace)

\* C10's case: the read-back of the songs table raised in the first run,
\* after four tables were written, over destinations that held the rows of an earlier run.
C10_Witness ==
    /\ failedAt = "songs_read"
    /\ run = 1
    /\ Len(Rows("songs")) > 0
    /\ Len(Rows("time")) > 0
    /\ Rows("time") # StaleStore["time"].rows
    /\ Rows("songplays") = StaleStore["songplays"].rows

====
